---- MODULE Spec2Model ----
(***************************************************************************)
(* The breathwork exercise: Phase, Timer, Exercise and the run_exercise    *)
(* driver loop.                                                            *)
(*                                                                         *)
(* Time.  Every float number of seconds of the program (clock readings,    *)
(* Timer.duration, remaining time) is held in ticks of one                 *)
(* LOOP_SLEEP_INTERVAL (0.1 s); TicksPerSecond ticks make one second.      *)
(* time.monotonic() has an undefined reference point and the program uses  *)
(* only differences of two readings (timer.py:57), so every action ends by *)
(* re-basing the clock: the reading at which the installed Timer was       *)
(* started becomes 0 (Rebase).                                             *)
(***************************************************************************)
EXTENDS Integers, Sequences, FiniteSets, TLC

VARIABLES
    now,        \* time.monotonic(), in ticks
    exercise,   \* the Exercise object (config, phases, cursor, timer, flags)
    outcome,    \* the last call made on an object: its name, result, exception
    ph,         \* a free-standing Phase object and the calls that succeeded on it
    pc,         \* run_exercise: the driver's position
    loc,        \* run_exercise: its locals
    display,    \* the Display object and what was shown
    cues,       \* the cues emitted while the current phase has been current
    tm,         \* a free-standing Timer object and what its queries answered
    cli         \* cli.main: its arguments, error stream and exit status

vars == <<now, exercise, outcome, ph, pc, loc, display, cues, tm, cli>>

----------------------------------------------------------------------------
\* Bounds of the model

MaxHold == 1         \* hold_duration up to this (s)
MaxStep == 2         \* each step duration up to this (s)
MaxSteps == 1        \* step_durations has up to this many elements
MaxPrep == 1         \* preparation_duration up to this (s)
MaxThreshold == 2    \* countdown_beep_threshold up to this (s)
MaxStall == 10       \* longest time passing between two clock reads (ticks)
MaxTimerTicks == 4   \* a free-standing Timer's duration and threshold (ticks)
MaxChars == 3        \* a --steps value has up to this many characters

----------------------------------------------------------------------------
\* Program constants

TicksPerSecond == 10          \* 1 / LOOP_SLEEP_INTERVAL
LOOP_SLEEP_INTERVAL == 1      \* 0.1 s
TRANSITION_PAUSE == TicksPerSecond * 1      \* 1.0 s
COMPLETE_DURATION == 1
None == -1                    \* no index, no start time

NOT_STARTED == "not_started"
IN_PROGRESS == "in_progress"
COUNTDOWN == "countdown"
COMPLETED == "completed"
PhaseState == {NOT_STARTED, IN_PROGRESS, COUNTDOWN, COMPLETED}

BREATHING == "breathing"
HOLD == "hold"
TUI == "tui"
PLAIN == "plain"

Max(a, b) == IF a >= b THEN a ELSE b

\* seconds (int) -> float seconds, in ticks
Secs(n) == n * TicksPerSecond

\* int(x) of a non-negative float: truncation to whole seconds
IntOf_rounds_up(x) == (x + TicksPerSecond - 1) \div TicksPerSecond

IntOf(x) == x \div TicksPerSecond

----------------------------------------------------------------------------
\* models.Phase

Phase(type, duration, instruction, color) ==
    [type |-> type, duration |-> duration, instruction |-> instruction,
     color |-> color, _state |-> NOT_STARTED]

\* Each method gives the phase after the call and the exception it raised.
Phase_start_forgets(p) ==
    IF p._state # NOT_STARTED
    THEN [phase |-> p, exc |-> "RuntimeError: Cannot start phase"]
    ELSE [phase |-> p, exc |-> "None"]

Phase_start(p) ==
    IF p._state # NOT_STARTED
    THEN [phase |-> p, exc |-> "RuntimeError: Cannot start phase"]
    ELSE [phase |-> [p EXCEPT !._state = IN_PROGRESS], exc |-> "None"]

Phase_enter_countdown(p) ==
    IF p._state # IN_PROGRESS
    THEN [phase |-> p, exc |-> "RuntimeError: Cannot enter countdown"]
    ELSE [phase |-> [p EXCEPT !._state = COUNTDOWN], exc |-> "None"]

Phase_complete_forgets(p) ==
    IF p._state \notin {IN_PROGRESS, COUNTDOWN}
    THEN [phase |-> p, exc |-> "RuntimeError: Cannot complete phase"]
    ELSE [phase |-> p, exc |-> "None"]

Phase_complete_lax(p) ==
    [phase |-> [p EXCEPT !._state = COMPLETED], exc |-> "None"]

Phase_complete(p) ==
    IF p._state \notin {IN_PROGRESS, COUNTDOWN}
    THEN [phase |-> p, exc |-> "RuntimeError: Cannot complete phase"]
    ELSE [phase |-> [p EXCEPT !._state = COMPLETED], exc |-> "None"]

\* (mutant) true in COUNTDOWN as well
Phase_is_in_progress_or_countdown(p) == p._state \in {IN_PROGRESS, COUNTDOWN}

Phase_is_in_progress(p) == p._state = IN_PROGRESS

----------------------------------------------------------------------------
\* timer.Timer.  id tells Timer objects apart: a Timer the exercise creates
\* gets an id other than that of the Timer it replaces.

NoTimer ==
    [id |-> 0, duration |-> 0, countdown_threshold |-> 0,
     _start_time |-> None, _is_running |-> FALSE]

\* Timer.__init__: the new object and the exception raised
Timer(id, duration, countdown_threshold) ==
    IF duration <= 0
    THEN [timer |-> NoTimer, exc |-> "ValueError: Duration must be positive"]
    ELSE IF countdown_threshold < 0
    THEN [timer |-> NoTimer, exc |-> "ValueError: Countdown threshold must be non-negative"]
    ELSE [timer |-> [id |-> id, duration |-> duration,
                     countdown_threshold |-> countdown_threshold,
                     _start_time |-> None, _is_running |-> FALSE],
          exc |-> "None"]

\* (mutant) start() takes a new start instant whether running or not
Timer_start_restarts(t, clk) ==
    [timer |-> [t EXCEPT !._start_time = clk, !._is_running = TRUE], exc |-> "None"]

Timer_start(t, clk) ==
    IF t._is_running
    THEN [timer |-> t, exc |-> "RuntimeError: Timer is already running"]
    ELSE [timer |-> [t EXCEPT !._start_time = clk, !._is_running = TRUE],
          exc |-> "None"]

Timer_reset(t) == [t EXCEPT !._start_time = None, !._is_running = FALSE]

\* (mutant) the clock reading itself, not the time since start()
Timer_elapsed_since_zero(t, clk) ==
    IF t._start_time = None THEN 0 ELSE clk

Timer_elapsed(t, clk) ==
    IF t._start_time = None THEN 0 ELSE clk - t._start_time

Timer_is_expired_early(t, clk) ==
    IF ~t._is_running THEN FALSE
    ELSE Timer_elapsed(t, clk) + 1 >= t.duration

\* (mutant) == for >=
Timer_is_expired_exactly(t, clk) ==
    IF ~t._is_running THEN FALSE
    ELSE Timer_elapsed(t, clk) = t.duration

Timer_is_expired(t, clk) ==
    IF ~t._is_running THEN FALSE
    ELSE Timer_elapsed(t, clk) >= t.duration

\* (mutant) no max(0.0, ...)
Timer_remaining_time_unclamped(t, clk) ==
    IF ~t._is_running THEN t.duration
    ELSE t.duration - Timer_elapsed(t, clk)

\* (mutant) the time run so far for the time left
Timer_remaining_time_counts_up(t, clk) ==
    IF ~t._is_running THEN t.duration
    ELSE Max(0, Timer_elapsed(t, clk))

Timer_remaining_time(t, clk) ==
    IF ~t._is_running THEN t.duration
    ELSE Max(0, t.duration - Timer_elapsed(t, clk))

\* (mutant) 0 <= remaining for 0 < remaining
Timer_in_countdown_closed(t, clk) ==
    IF ~t._is_running THEN FALSE
    ELSE IF t.countdown_threshold = 0 THEN FALSE
    ELSE 0 <= Timer_remaining_time(t, clk)
         /\ Timer_remaining_time(t, clk) <= t.countdown_threshold

Timer_in_countdown(t, clk) ==
    IF ~t._is_running THEN FALSE
    ELSE IF t.countdown_threshold = 0 THEN FALSE
    ELSE 0 < Timer_remaining_time(t, clk)
         /\ Timer_remaining_time(t, clk) <= t.countdown_threshold

----------------------------------------------------------------------------
\* models.ExerciseConfig: the configurations the model runs (all valid)

RECURSIVE SeqsUpTo(_, _)
SeqsUpTo(S, n) ==
    IF n = 0 THEN {<<>>}
    ELSE SeqsUpTo(S, n - 1)
         \cup {Append(s, x) : s \in {q \in SeqsUpTo(S, n - 1) : Len(q) = n - 1}, x \in S}

Configs ==
    [hold_duration : 1..MaxHold,
     step_durations : SeqsUpTo(1..MaxStep, MaxSteps) \ {<<>>},
     countdown_beep_threshold : 0..MaxThreshold,
     preparation_duration : 0..MaxPrep,
     audio_enabled : BOOLEAN,
     display_mode : {TUI, PLAIN}]

\* ExerciseConfig(): the defaults of the dataclass
DefaultConfig ==
    [hold_duration |-> 60, step_durations |-> <<30, 20, 10>>,
     countdown_beep_threshold |-> 5, preparation_duration |-> 0,
     audio_enabled |-> TRUE, display_mode |-> TUI]

\* ExerciseConfig.validate(): the ValueError it raises, "None" for none
HOLD_LIMIT == 300
STEP_LIMIT == 120

\* (mutant) the upper limit of a step is not checked
StepError_no_limit(step_durations, i) ==
    IF step_durations[i] <= 0
    THEN "ValueError: All step durations must be positive"
    ELSE "None"

\* the checks on the step at position i (models.py:134-141)
StepError(step_durations, i) ==
    IF step_durations[i] <= 0
    THEN "ValueError: All step durations must be positive"
    ELSE IF step_durations[i] > STEP_LIMIT
    THEN "ValueError: Step durations cannot exceed 120 seconds"
    ELSE "None"

\* the for loop of models.py:133-141 from position i on: the first error
RECURSIVE StepsError(_, _)
StepsError(step_durations, i) ==
    IF i > Len(step_durations) THEN "None"
    ELSE IF StepError(step_durations, i) # "None" THEN StepError(step_durations, i)
    ELSE StepsError(step_durations, i + 1)

ExerciseConfig_validate(c) ==
    IF c.hold_duration <= 0 THEN "ValueError: Hold duration must be positive"
    ELSE IF c.hold_duration > HOLD_LIMIT
    THEN "ValueError: Hold duration cannot exceed 300 seconds"
    ELSE IF c.step_durations = <<>> THEN "ValueError: Step durations cannot be empty"
    ELSE IF StepsError(c.step_durations, 1) # "None" THEN StepsError(c.step_durations, 1)
    ELSE IF c.countdown_beep_threshold < 0
    THEN "ValueError: Countdown beep threshold must be non-negative"
    ELSE IF c.preparation_duration < 0
    THEN "ValueError: Preparation duration must be non-negative"
    ELSE "None"

\* ExerciseConfig(...): __post_init__ validates; the configurations made
\* (none when it raised) and the exception
ExerciseConfig(c) ==
    [made |-> IF ExerciseConfig_validate(c) = "None" THEN {c} ELSE {},
     exc |-> ExerciseConfig_validate(c)]

----------------------------------------------------------------------------
\* ExerciseConfig.from_cli_args.  A str is the sequence of its characters.

Digits == {"0", "1", "2"}

DigitValue(c) == IF c = "0" THEN 0 ELSE IF c = "1" THEN 1 ELSE 2

\* str.strip()
RECURSIVE LStrip(_)
LStrip(str) ==
    IF str # <<>> /\ Head(str) = " " THEN LStrip(Tail(str)) ELSE str

RECURSIVE RStrip(_)
RStrip(str) ==
    IF str # <<>> /\ str[Len(str)] = " "
    THEN RStrip(SubSeq(str, 1, Len(str) - 1))
    ELSE str

Strip(str) == RStrip(LStrip(str))

\* str.split(","): the pieces between the commas, empty pieces kept
RECURSIVE Split(_)
Split(str) ==
    LET commas == {k \in 1..Len(str) : str[k] = ","}
        first == CHOOSE k \in commas : \A j \in commas : k <= j
    IN  IF commas = {} THEN <<str>>
        ELSE <<SubSeq(str, 1, first - 1)>> \o Split(SubSeq(str, first + 1, Len(str)))

\* int(str) of a stripped str over the characters of the model: decimal
\* digits only, leading zeros allowed; anything else is a ValueError
IsInt(str) == str # <<>> /\ \A k \in 1..Len(str) : str[k] \in Digits

RECURSIVE IntValue(_)
IntValue(str) ==
    IF str = <<>> THEN 0
    ELSE 10 * IntValue(SubSeq(str, 1, Len(str) - 1)) + DigitValue(str[Len(str)])

\* the body of the loop of models.py:173-179 for the piece at position i,
\* with the re-raise of models.py:180-189
ParsePart(parts, i) ==
    IF Strip(parts[i]) = <<>>
    THEN [step_durations |-> <<>>,
          exc |-> "ValueError: Invalid steps format: Empty value at position"]
    ELSE IF ~IsInt(Strip(parts[i]))
    THEN [step_durations |-> <<>>, exc |-> "ValueError: Invalid steps format"]
    ELSE [step_durations |-> <<IntValue(Strip(parts[i]))>>, exc |-> "None"]

\* the loop from position i on
RECURSIVE ParseParts(_, _)
ParseParts(parts, i) ==
    IF i > Len(parts) THEN [step_durations |-> <<>>, exc |-> "None"]
    ELSE IF ParsePart(parts, i).exc # "None" THEN ParsePart(parts, i)
    ELSE IF ParseParts(parts, i + 1).exc # "None" THEN ParseParts(parts, i + 1)
    ELSE [step_durations |-> ParsePart(parts, i).step_durations
                             \o ParseParts(parts, i + 1).step_durations,
          exc |-> "None"]

\* str.lower() on the audio values of the model
Lower(str) == IF str = "BEEP" THEN "beep" ELSE str

from_cli_args(args) ==
    IF Strip(args.steps) = <<>>
    THEN [made |-> {}, exc |-> "ValueError: Step durations cannot be empty"]
    ELSE IF ParseParts(Split(args.steps), 1).exc # "None"
    THEN [made |-> {}, exc |-> ParseParts(Split(args.steps), 1).exc]
    ELSE ExerciseConfig(
           [hold_duration |-> args.hold,
            step_durations |-> ParseParts(Split(args.steps), 1).step_durations,
            countdown_beep_threshold |-> args.countdown,
            preparation_duration |-> args.preparation,
            audio_enabled |-> (Lower(args.audio) = "beep"),
            display_mode |-> IF args.tui THEN TUI ELSE PLAIN])

----------------------------------------------------------------------------
\* configuration.ExerciseDefaults, DisplayConfig.PHASE_COLORS

PREPARATION_INSTRUCTION == "Prepare"
HOLD_INSTRUCTION == "Hold"
\* A format template is the sequence of its literal pieces and "{duration}"
\* replacement fields.
BREATHING_INSTRUCTION == <<"Breathe">>
PHASE_COLORS == [breathing |-> "cyan", hold |-> "yellow", countdown |-> "red"]

\* str.format(duration=d): every "{duration}" field becomes the decimal of d
RECURSIVE StrFormat(_, _)
StrFormat(template, d) ==
    IF template = <<>> THEN ""
    ELSE (IF Head(template) = "{duration}" THEN ToString(d) ELSE Head(template))
         \o StrFormat(Tail(template), d)

----------------------------------------------------------------------------
\* exercise.Exercise

Exercise(config) ==
    [config |-> config, phases |-> <<>>, current_phase_index |-> None,
     timer |-> NoTimer, _started |-> FALSE, _completed |-> FALSE]

\* the breathing and hold phases of the steps from the i-th on
RECURSIVE StepPhases(_, _)
StepPhases(config, i) ==
    IF i > Len(config.step_durations) THEN <<>>
    ELSE << Phase(BREATHING, config.step_durations[i],
                  StrFormat(BREATHING_INSTRUCTION, config.step_durations[i]),
                  PHASE_COLORS.breathing),
            Phase(HOLD, config.hold_duration, HOLD_INSTRUCTION, PHASE_COLORS.hold) >>
         \o StepPhases(config, i + 1)

\* (mutant) the preparation phase is generated for a duration of 0 too
_generate_phases_always_prepares(config) ==
    << Phase(BREATHING, config.preparation_duration, PREPARATION_INSTRUCTION, "blue") >>
    \o StepPhases(config, 1)
    \o << Phase(BREATHING, COMPLETE_DURATION, "Complete", "blue") >>

_generate_phases(config) ==
    (IF config.preparation_duration > 0
     THEN << Phase(BREATHING, config.preparation_duration,
                   PREPARATION_INSTRUCTION, "blue") >>
     ELSE <<>>)
    \o StepPhases(config, 1)
    \o << Phase(BREATHING, COMPLETE_DURATION, "Complete", "blue") >>

\* phases[i] of the source, whose indices start at 0
PhaseAt(ex, i) == ex.phases[i + 1]

\* The outcome of a call on the exercise: the exercise after it, the value
\* returned ("None" when it raised) and the exception raised.
Raised(ex, exc) == [ex |-> ex, ret |-> "None", exc |-> exc]
Returned(ex, ret) == [ex |-> ex, ret |-> ret, exc |-> "None"]

\* (mutant) the old Timer object is given the new duration and restarted
InstallTimer_restarts(ex, clk, ret) ==
    LET p == PhaseAt(ex, ex.current_phase_index)
    IN  Returned([ex EXCEPT !.timer = [id |-> Max(ex.timer.id, 1),
                                        duration |-> Secs(p.duration),
                                        countdown_threshold |->
                                            Secs(ex.config.countdown_beep_threshold),
                                        _start_time |-> clk,
                                        _is_running |-> TRUE]], ret)

\* (mutant) the new Timer takes the duration of the phase before the cursor
InstallTimer_previous_phase(ex, clk, ret) ==
    LET p == PhaseAt(ex, Max(ex.current_phase_index - 1, 0))
        made == Timer(ex.timer.id + 1, Secs(p.duration),
                      Secs(ex.config.countdown_beep_threshold))
        started == Timer_start(made.timer, clk)
    IN  IF made.exc # "None" THEN Raised(ex, made.exc)
        ELSE IF started.exc # "None"
        THEN Raised([ex EXCEPT !.timer = made.timer], started.exc)
        ELSE Returned([ex EXCEPT !.timer = started.timer], ret)

\* Timer(duration=phase.duration, countdown_threshold=...) followed by
\* timer.start(), as start() and advance_phase() do for the phase at the cursor
InstallTimer(ex, clk, ret) ==
    LET p == PhaseAt(ex, ex.current_phase_index)
        made == Timer(ex.timer.id + 1, Secs(p.duration),
                      Secs(ex.config.countdown_beep_threshold))
        started == Timer_start(made.timer, clk)
    IN  IF made.exc # "None" THEN Raised(ex, made.exc)
        ELSE IF started.exc # "None"
        THEN Raised([ex EXCEPT !.timer = made.timer], started.exc)
        ELSE Returned([ex EXCEPT !.timer = started.timer], ret)

\* phases[current_phase_index].start(), then the Timer for it
StartCurrent(ex, clk, ret) ==
    LET began == Phase_start(PhaseAt(ex, ex.current_phase_index))
        ex1 == [ex EXCEPT !.phases[ex.current_phase_index + 1] = began.phase]
    IN  IF began.exc # "None" THEN Raised(ex, began.exc)
        ELSE InstallTimer(ex1, clk, ret)

\* (mutant) a completed exercise is started again
Exercise_start_again(ex, clk) ==
    IF ex._started /\ ~ex._completed
    THEN Raised(ex, "RuntimeError: Exercise already started")
    ELSE StartCurrent([ex EXCEPT !.phases = _generate_phases(ex.config),
                                 !._started = TRUE,
                                 !._completed = FALSE,
                                 !.current_phase_index = 0],
                      clk, "None")

Exercise_start(ex, clk) ==
    IF ex._started /\ ~ex._completed
    THEN Raised(ex, "RuntimeError: Exercise already started")
    ELSE IF ex._completed
    THEN Raised(ex, "RuntimeError: Exercise already completed")
    ELSE StartCurrent([ex EXCEPT !.phases = _generate_phases(ex.config),
                                 !._started = TRUE,
                                 !._completed = FALSE,
                                 !.current_phase_index = 0],
                      clk, "None")

\* (mutant) the last phase is taken to be the one before it
Exercise_advance_phase_short(ex, clk) ==
    IF ~ex._started THEN Raised(ex, "RuntimeError: Exercise not started")
    ELSE IF ex._completed THEN Returned(ex, "False")
    ELSE IF ex.timer # NoTimer /\ ~Timer_is_expired(ex.timer, clk)
    THEN Raised(ex, "RuntimeError: Current phase not complete")
    ELSE
      LET i == ex.current_phase_index
          done == IF i # None THEN Phase_complete(PhaseAt(ex, i))
                  ELSE [phase |-> <<>>, exc |-> "None"]
          ex1 == IF i # None THEN [ex EXCEPT !.phases[i + 1] = done.phase] ELSE ex
      IN  IF done.exc # "None" THEN Raised(ex, done.exc)
          ELSE IF i # None /\ i < Len(ex.phases) - 2
          THEN StartCurrent([ex1 EXCEPT !.current_phase_index = i + 1], clk, "True")
          ELSE Returned([ex1 EXCEPT !._completed = TRUE,
                                    !.current_phase_index = None], "False")

\* (mutant) no check that the exercise was started
Exercise_advance_phase_unstarted(ex, clk) ==
    IF ex._completed THEN Returned(ex, "False")
    ELSE IF ex.timer # NoTimer /\ ~Timer_is_expired(ex.timer, clk)
    THEN Raised(ex, "RuntimeError: Current phase not complete")
    ELSE
      LET i == ex.current_phase_index
          done == IF i # None THEN Phase_complete(PhaseAt(ex, i))
                  ELSE [phase |-> <<>>, exc |-> "None"]
          ex1 == IF i # None THEN [ex EXCEPT !.phases[i + 1] = done.phase] ELSE ex
      IN  IF done.exc # "None" THEN Raised(ex, done.exc)
          ELSE IF i # None /\ i < Len(ex.phases) - 1
          THEN StartCurrent([ex1 EXCEPT !.current_phase_index = i + 1], clk, "True")
          ELSE Returned([ex1 EXCEPT !._completed = TRUE,
                                    !.current_phase_index = None], "False")

Exercise_advance_phase(ex, clk) ==
    IF ~ex._started THEN Raised(ex, "RuntimeError: Exercise not started")
    ELSE IF ex._completed THEN Returned(ex, "False")
    ELSE IF ex.timer # NoTimer /\ ~Timer_is_expired(ex.timer, clk)
    THEN Raised(ex, "RuntimeError: Current phase not complete")
    ELSE
      LET i == ex.current_phase_index
          done == IF i # None THEN Phase_complete(PhaseAt(ex, i))
                  ELSE [phase |-> <<>>, exc |-> "None"]
          ex1 == IF i # None THEN [ex EXCEPT !.phases[i + 1] = done.phase] ELSE ex
      IN  IF done.exc # "None" THEN Raised(ex, done.exc)
          ELSE IF i # None /\ i < Len(ex.phases) - 1
          THEN StartCurrent([ex1 EXCEPT !.current_phase_index = i + 1], clk, "True")
          ELSE Returned([ex1 EXCEPT !._completed = TRUE,
                                    !.current_phase_index = None], "False")

\* get_current_phase(): the index of the phase it returns, None for no phase
Exercise_get_current_phase(ex) ==
    IF ~ex._started \/ ex._completed THEN None
    ELSE ex.current_phase_index

Exercise_is_complete(ex) == ex._completed

\* (mutant) the phases and the timer are left in place
Exercise_reset_flags_only(ex) ==
    [ex EXCEPT !.current_phase_index = None, !._started = FALSE, !._completed = FALSE]

Exercise_reset(ex) ==
    [ex EXCEPT !.phases = <<>>, !.current_phase_index = None, !.timer = NoTimer,
               !._started = FALSE, !._completed = FALSE]

\* The clock is re-based so that the installed Timer was started at 0.
Origin(ex) == IF ex.timer._start_time = None THEN 0 ELSE ex.timer._start_time

Rebase(ex) ==
    IF ex.timer._start_time = None THEN ex
    ELSE [ex EXCEPT !.timer._start_time = 0]

----------------------------------------------------------------------------
\* Initial values

NoCall == [call |-> "None", ret |-> "None", exc |-> "None"]

\* Phase objects a client may construct
SomePhases ==
    {Phase(t, d, ins, col) : t \in {BREATHING, HOLD}, d \in 1..MaxStep,
                             ins \in {"Prepare", "Breathe", "Hold", "Complete"},
                             col \in {"blue", "cyan", "yellow"}}

\* run_exercise's locals before it runs; signal is the driver position at
\* which a KeyboardInterrupt was raised, result what run_exercise returned
IdleLoc == [last_second |-> -1, countdown_beeps_played |-> {}, phase |-> None,
            remaining |-> None, result |-> "None", signal |-> "None"]

\* frame is the last countdown frame written: <<seconds, phase_index>>
IdleDisplay == [mode |-> TUI, _display_initialized |-> FALSE, frame |-> <<>>,
                notice |-> "None"]

\* no free-standing Timer in use; was_started: a start() on it has succeeded
IdleTm == [timer |-> NoTimer, was_started |-> FALSE]

\* cli.main not in use.  argv holds the arguments of a call until they
\* have been read, config the ExerciseConfig made, err the line written to
\* the error stream as <<prefix, exception>>, exit the exit status
IdleCli == [argv |-> {}, config |-> {}, err |-> <<>>, exit |-> None]

\* the state after exercise = Exercise(config)
Constructed(config) ==
    /\ now = 0
    /\ exercise = Exercise(config)
    /\ outcome = NoCall
    /\ ph = [phase |-> Phase(BREATHING, COMPLETE_DURATION, "Complete", "blue"),
             trace |-> <<>>]
    /\ loc = IdleLoc
    /\ display = IdleDisplay
    /\ cues = <<>>
    /\ tm = IdleTm
    /\ cli = IdleCli

----------------------------------------------------------------------------
\* A client of Exercise: start(), advance_phase(), reset() called in any
\* order at any time, and the driver's enter_countdown() on the current
\* phase (core.py:45-46).

\* the state after a call made at clock reading clk with outcome res
AfterCall(name, res, clk) ==
    /\ exercise' = Rebase(res.ex)
    /\ now' = clk - Origin(res.ex)
    /\ outcome' = [call |-> name, ret |-> res.ret, exc |-> res.exc]

ApiStart ==
    /\ pc = "client"
    /\ AfterCall("start", Exercise_start(exercise, now), now)
    /\ UNCHANGED <<ph, pc, loc, display, cues, tm, cli>>

ApiAdvance ==
    /\ pc = "client"
    /\ AfterCall("advance_phase", Exercise_advance_phase(exercise, now), now)
    /\ UNCHANGED <<ph, pc, loc, display, cues, tm, cli>>

ApiReset ==
    /\ pc = "client"
    /\ AfterCall("reset", Returned(Exercise_reset(exercise), "None"), now)
    /\ UNCHANGED <<ph, pc, loc, display, cues, tm, cli>>

\* (mutant) enter_countdown() without asking the timer for its window
EnterCountdownIfDue_no_window(ex, clk) ==
    LET i == Exercise_get_current_phase(ex)
        entered == Phase_enter_countdown(PhaseAt(ex, i))
    IN  IF i # None /\ ex.timer # NoTimer /\ Phase_is_in_progress(PhaseAt(ex, i))
        THEN IF entered.exc # "None" THEN Raised(ex, entered.exc)
             ELSE Returned([ex EXCEPT !.phases[i + 1] = entered.phase], "None")
        ELSE Returned(ex, "None")

\* core.py:45-46 on the phase and timer the exercise gives
EnterCountdownIfDue(ex, clk) ==
    LET i == Exercise_get_current_phase(ex)
        entered == Phase_enter_countdown(PhaseAt(ex, i))
    IN  IF i # None /\ ex.timer # NoTimer
           /\ Timer_in_countdown(ex.timer, clk) /\ Phase_is_in_progress(PhaseAt(ex, i))
        THEN IF entered.exc # "None" THEN Raised(ex, entered.exc)
             ELSE Returned([ex EXCEPT !.phases[i + 1] = entered.phase], "None")
        ELSE Returned(ex, "None")

ApiEnterCountdown ==
    /\ pc = "client"
    /\ EnterCountdownIfDue(exercise, now).ex # exercise
    /\ AfterCall("enter_countdown", EnterCountdownIfDue(exercise, now), now)
    /\ UNCHANGED <<ph, pc, loc, display, cues, tm, cli>>

\* time passes between two calls
ApiClock ==
    /\ pc = "client"
    /\ now < exercise.timer.duration + MaxStall
    /\ \E d \in 1..MaxStall : now' = now + d
    /\ UNCHANGED <<exercise, outcome, ph, pc, loc, display, cues, tm, cli>>

\* Exercise reads neither audio_enabled nor display_mode: they keep the
\* dataclass defaults here
ApiConfigs == {c \in Configs : c.audio_enabled /\ c.display_mode = TUI}

InitApi ==
    /\ pc = "client"
    /\ \E config \in ApiConfigs : Constructed(config)

NextApi == ApiStart \/ ApiAdvance \/ ApiReset \/ ApiEnterCountdown \/ ApiClock

SpecApi == InitApi /\ [][NextApi]_vars

\* The same calls against the clock as it reads, with no change of origin:
\* start() is called at the reading 0 and now is the monotonic time since.
Called(name, res) ==
    /\ exercise' = res.ex
    /\ outcome' = [call |-> name, ret |-> res.ret, exc |-> res.exc]

ClockStart ==
    /\ pc = "clock"
    /\ Called("start", Exercise_start(exercise, now))
    /\ UNCHANGED <<now, ph, pc, loc, display, cues, tm, cli>>

ClockAdvance ==
    /\ pc = "clock"
    /\ Called("advance_phase", Exercise_advance_phase(exercise, now))
    /\ UNCHANGED <<now, ph, pc, loc, display, cues, tm, cli>>

\* time passes while a phase runs
ClockTick ==
    /\ pc = "clock"
    /\ exercise._started /\ ~exercise._completed
    /\ now < exercise.timer._start_time + exercise.timer.duration + MaxStall
    /\ \E d \in 1..MaxStall : now' = now + d
    /\ UNCHANGED <<exercise, outcome, ph, pc, loc, display, cues, tm, cli>>

\* the countdown window plays no part in when a phase may be left
ClockConfigs == {c \in ApiConfigs : c.countdown_beep_threshold = 0}

InitClock ==
    /\ pc = "clock"
    /\ \E config \in ClockConfigs : Constructed(config)

NextClock == ClockStart \/ ClockAdvance \/ ClockTick

SpecClock == InitClock /\ [][NextClock]_vars

\* start() alone, on exercises with up to two steps more: the dataclass
\* defaults, and lists of every length up to theirs
GenConfigs ==
    {DefaultConfig} \cup
    [hold_duration : 1..MaxHold,
     step_durations : SeqsUpTo(1..MaxStep, MaxSteps + 2) \ {<<>>},
     countdown_beep_threshold : 0..MaxThreshold,
     preparation_duration : 0..MaxPrep,
     audio_enabled : {TRUE},
     display_mode : {TUI}]

InitGenerate ==
    /\ pc = "client"
    /\ \E config \in GenConfigs : Constructed(config)

NextGenerate == ApiStart

SpecGenerate == InitGenerate /\ [][NextGenerate]_vars

----------------------------------------------------------------------------
\* A client of one Phase: start(), enter_countdown(), complete() called in
\* any order.  ph.trace is the sequence of the calls that did not raise.

PhaseCall(name, res) ==
    /\ pc = "phase"
    /\ ph' = [phase |-> res.phase,
              trace |-> IF res.exc = "None" THEN Append(ph.trace, name) ELSE ph.trace]
    /\ outcome' = [call |-> name, ret |-> "None", exc |-> res.exc]
    /\ UNCHANGED <<now, exercise, pc, loc, display, cues, tm, cli>>

PhStart == PhaseCall("start", Phase_start(ph.phase))
PhEnterCountdown == PhaseCall("enter_countdown", Phase_enter_countdown(ph.phase))
PhComplete == PhaseCall("complete", Phase_complete(ph.phase))

InitPhase ==
    /\ pc = "phase"
    /\ now = 0
    /\ exercise = Exercise(DefaultConfig)
    /\ outcome = NoCall
    /\ ph \in {[phase |-> p, trace |-> <<>>] : p \in SomePhases}
    /\ loc = IdleLoc
    /\ display = IdleDisplay
    /\ cues = <<>>
    /\ tm = IdleTm
    /\ cli = IdleCli

NextPhase == PhStart \/ PhEnterCountdown \/ PhComplete

SpecPhase == InitPhase /\ [][NextPhase]_vars

----------------------------------------------------------------------------
\* A client of ExerciseConfig: the constructor called once with any field
\* values, those at and beyond the limits included.

HoldInputs == ((0 - 1)..MaxHold) \cup {HOLD_LIMIT, HOLD_LIMIT + 1}
StepInputs == ((0 - 1)..MaxStep) \cup {STEP_LIMIT, STEP_LIMIT + 1}

RawConfigs ==
    [hold_duration : HoldInputs,
     step_durations : SeqsUpTo(StepInputs, MaxSteps + 1),
     countdown_beep_threshold : (0 - 1)..MaxThreshold,
     preparation_duration : (0 - 1)..MaxPrep,
     audio_enabled : BOOLEAN,
     display_mode : {TUI, PLAIN}]

Construct ==
    /\ pc = "config"
    /\ \E c \in cli.argv :
         /\ cli' = [cli EXCEPT !.config = ExerciseConfig(c).made]
         /\ outcome' = [call |-> "ExerciseConfig", ret |-> "None",
                        exc |-> ExerciseConfig(c).exc]
    /\ pc' = "configured"
    /\ UNCHANGED <<now, exercise, ph, loc, display, cues, tm>>

InitConfig ==
    /\ pc = "config"
    /\ now = 0
    /\ exercise = Exercise(DefaultConfig)
    /\ outcome = NoCall
    /\ ph = [phase |-> Phase(BREATHING, COMPLETE_DURATION, "Complete", "blue"),
             trace |-> <<>>]
    /\ loc = IdleLoc
    /\ display = IdleDisplay
    /\ cues = <<>>
    /\ tm = IdleTm
    /\ cli \in {[IdleCli EXCEPT !.argv = {c}] : c \in RawConfigs}

NextConfig == Construct

SpecConfig == InitConfig /\ [][NextConfig]_vars

----------------------------------------------------------------------------
\* A client of one Timer: start() and reset() called in any order at any
\* clock reading; the queries are read at the state's clock reading.

\* Timer objects a client may construct
SomeTimers ==
    {Timer(1, d, c).timer : d \in 1..MaxTimerTicks, c \in 0..MaxTimerTicks}

TmStart ==
    /\ pc = "timer"
    /\ LET res == Timer_start(tm.timer, now)
       IN  /\ tm' = [timer |-> res.timer,
                     was_started |-> tm.was_started \/ res.exc = "None"]
           /\ outcome' = [call |-> "start", ret |-> "None", exc |-> res.exc]
    /\ UNCHANGED <<now, exercise, ph, pc, loc, display, cues, cli>>

TmReset ==
    /\ pc = "timer"
    /\ tm' = [tm EXCEPT !.timer = Timer_reset(tm.timer)]
    /\ outcome' = [call |-> "reset", ret |-> "None", exc |-> "None"]
    /\ UNCHANGED <<now, exercise, ph, pc, loc, display, cues, cli>>

\* time passes between two calls
TmClock ==
    /\ pc = "timer"
    /\ now < tm.timer.duration + MaxStall
    /\ \E d \in 1..MaxStall : now' = now + d
    /\ outcome' = NoCall
    /\ UNCHANGED <<exercise, ph, pc, loc, display, cues, tm, cli>>

InitTimer ==
    /\ pc = "timer"
    /\ now = 0
    /\ exercise = Exercise(DefaultConfig)
    /\ outcome = NoCall
    /\ ph = [phase |-> Phase(BREATHING, COMPLETE_DURATION, "Complete", "blue"),
             trace |-> <<>>]
    /\ loc = IdleLoc
    /\ display = IdleDisplay
    /\ cues = <<>>
    /\ tm \in {[timer |-> t, was_started |-> FALSE] : t \in SomeTimers}
    /\ cli = IdleCli

NextTimer == TmStart \/ TmReset \/ TmClock

SpecTimer == InitTimer /\ [][NextTimer]_vars

----------------------------------------------------------------------------
\* display.Display, as far as the driver's result depends on it

Display(mode) ==
    [mode |-> mode, _display_initialized |-> FALSE, frame |-> <<>>, notice |-> "None"]

Display_start_live_display(dsp) ==
    IF dsp.mode = TUI THEN [dsp EXCEPT !._display_initialized = TRUE] ELSE dsp

Display_stop_live_display_keeps(dsp) == dsp

Display_stop_live_display(dsp) ==
    IF dsp.mode = TUI /\ dsp._display_initialized
    THEN [dsp EXCEPT !._display_initialized = FALSE]
    ELSE dsp

\* show_countdown: the TUI writes nothing while the live display is off
Display_show_countdown(dsp, seconds, phase_index) ==
    IF dsp.mode = TUI /\ ~dsp._display_initialized THEN dsp
    ELSE [dsp EXCEPT !.frame = <<seconds, phase_index>>]

Display_show_instruction(dsp, instruction) == [dsp EXCEPT !.notice = instruction]

Display_show_error(dsp, error) == [dsp EXCEPT !.notice = "Error: " \o error]

INTERRUPTION_MESSAGE == "\nExercise interrupted by user"

----------------------------------------------------------------------------
\* core.run_exercise

\* (mutant) no frame while there is no last value
ShouldRedraw_skips_first(remaining, last_second) ==
    last_second # -1 /\ remaining # last_second

\* core.py:50
ShouldRedraw(remaining, last_second) == remaining # last_second

CountdownCueDue_wide(config, remaining, played) ==
    /\ config.audio_enabled
    /\ 1 <= remaining
    /\ remaining <= config.countdown_beep_threshold + 1
    /\ remaining \notin played

\* (mutant) the countdown cue does not ask whether audio is enabled
CountdownCueDue_ignores_audio(config, remaining, played) ==
    /\ 1 <= remaining
    /\ remaining <= config.countdown_beep_threshold
    /\ remaining \notin played

\* core.py:54-58
CountdownCueDue(config, remaining, played) ==
    /\ config.audio_enabled
    /\ 1 <= remaining
    /\ remaining <= config.countdown_beep_threshold
    /\ remaining \notin played

TransitionCueDue_any_phase(config, remaining, played, phase) ==
    /\ config.audio_enabled
    /\ remaining = 0
    /\ 0 \notin played

\* core.py:63-69
TransitionCueDue(config, remaining, played, phase) ==
    /\ config.audio_enabled
    /\ remaining = 0
    /\ 0 \notin played
    /\ ~(phase.instruction = "Complete")

Stalls == 0..MaxStall

\* the cues of the phase at the cursor: a new list once the cursor moves
CuesAfter(ex, log) ==
    IF ex.current_phase_index # exercise.current_phase_index THEN <<>> ELSE log

\* except KeyboardInterrupt (core.py:117-121)
Cancelled(at) ==
    /\ display' = Display_show_instruction(Display_stop_live_display(display),
                                           INTERRUPTION_MESSAGE)
    /\ loc' = [loc EXCEPT !.result = "False", !.signal = at]
    /\ pc' = "returned"

\* (mutant) the handler reports the error and leaves the live display on
Failed_leaves_display(error, l) ==
    /\ display' = Display_show_error(display, error)
    /\ loc' = [l EXCEPT !.result = "False"]
    /\ pc' = "returned"

\* except Exception (core.py:123-127), for an exception raised with the
\* driver's locals at l
Failed(error, l) ==
    /\ display' = Display_show_error(Display_stop_live_display(display), error)
    /\ loc' = [l EXCEPT !.result = "False"]
    /\ pc' = "returned"

\* core.py:21-27, before the try: exercise.start() and Display(...)
Setup ==
    /\ pc = "setup"
    /\ LET res == Exercise_start(exercise, now)
       IN  /\ AfterCall("start", res, now)
           /\ IF res.exc # "None"
              THEN /\ pc' = "raised"
                   /\ loc' = [loc EXCEPT !.result = res.exc]
                   /\ display' = display
              ELSE /\ pc' = "live"
                   /\ loc' = loc
                   /\ display' = Display(exercise.config.display_mode)
    /\ UNCHANGED <<ph, cues, tm, cli>>

\* core.py:31-35
StartLive ==
    /\ pc = "live"
    /\ display' = Display_start_live_display(display)
    /\ loc' = [loc EXCEPT !.last_second = -1, !.countdown_beeps_played = {}]
    /\ pc' = "poll"
    /\ UNCHANGED <<now, exercise, outcome, ph, cues, tm, cli>>

\* core.py:37-46: the loop test, the phase and timer of this iteration, and
\* the countdown transition; in_countdown() reads the clock
Poll ==
    /\ pc = "poll"
    /\ \E d \in Stalls :
         LET clk == now + d
             i == Exercise_get_current_phase(exercise)
             res == EnterCountdownIfDue(exercise, clk)
         IN  IF Exercise_is_complete(exercise) \/ i = None \/ exercise.timer = NoTimer
             THEN /\ pc' = "after_loop"
                  /\ UNCHANGED <<now, exercise, outcome, loc, display>>
             ELSE /\ now' = clk
                  /\ exercise' = res.ex
                  /\ outcome' = [call |-> "enter_countdown", ret |-> res.ret, exc |-> res.exc]
                  /\ IF res.exc # "None"
                     THEN Failed(res.exc, [loc EXCEPT !.phase = i])
                     ELSE /\ loc' = [loc EXCEPT !.phase = i]
                          /\ pc' = "render"
                          /\ display' = display
    /\ UNCHANGED <<ph, cues, tm, cli>>

\* core.py:49-73: remaining_time() reads the clock; redraw and cues
Render ==
    /\ pc = "render"
    /\ \E d \in Stalls :
         LET clk == now + d
             remaining == IntOf(Timer_remaining_time(exercise.timer, clk))
             phase == PhaseAt(exercise, loc.phase)
             played == loc.countdown_beeps_played
             countdown == CountdownCueDue(exercise.config, remaining, played)
             played1 == IF countdown THEN played \cup {remaining} ELSE played
             transition == TransitionCueDue(exercise.config, remaining, played1, phase)
             played2 == IF transition THEN played1 \cup {0} ELSE played1
             cues1 == IF countdown
                      THEN Append(cues, [kind |-> "countdown", value |-> remaining])
                      ELSE cues
             cues2 == IF transition
                      THEN Append(cues1, [kind |-> "transition", value |-> remaining])
                      ELSE cues1
         IN  /\ now' = clk
             /\ IF ShouldRedraw(remaining, loc.last_second)
                THEN /\ display' = Display_show_countdown(display, remaining,
                                                          exercise.current_phase_index)
                     /\ cues' = cues2
                     /\ loc' = [loc EXCEPT !.remaining = remaining,
                                           !.countdown_beeps_played = played2,
                                           !.last_second = remaining]
                ELSE /\ loc' = [loc EXCEPT !.remaining = remaining]
                     /\ UNCHANGED <<display, cues>>
    /\ pc' = "expire"
    /\ UNCHANGED <<exercise, outcome, ph, tm, cli>>

\* core.py:49-51 when the display backend fails: show_countdown
\* (display.py:109-129) writes the frame to sys.stdout with no handler of its
\* own, so the write's OSError leaves the loop for core.py:123-127
RenderFails ==
    /\ pc = "render"
    /\ \E d \in Stalls :
         LET clk == now + d
             remaining == IntOf(Timer_remaining_time(exercise.timer, clk))
         IN  /\ ShouldRedraw(remaining, loc.last_second)
             /\ display.mode = PLAIN \/ display._display_initialized
             /\ now' = clk
             /\ outcome' = [call |-> "show_countdown", ret |-> "None", exc |-> "OSError"]
             /\ Failed("OSError", [loc EXCEPT !.remaining = remaining])
    /\ UNCHANGED <<exercise, ph, cues, tm, cli>>

\* time.sleep(TRANSITION_PAUSE) in plain mode only (core.py:90-91)
PauseAfterTransition(config) ==
    IF config.display_mode = PLAIN THEN TRANSITION_PAUSE ELSE 0

\* core.py:76-94: is_expired() reads the clock; advance, reset for the new
\* phase, the transition notice, and the sleeps that end the iteration.
\* advance_phase() reads the clock again for its own is_expired() and for
\* the new Timer's start: a monotonic clock keeps the first answer, and time
\* passing before the new Timer starts is not part of its elapsed time, so
\* the call is made at the one reading clk.
Expire ==
    /\ pc = "expire"
    /\ \E d \in Stalls :
         LET clk == now + d
             res == Exercise_advance_phase(exercise, clk)
         IN  IF ~Timer_is_expired(exercise.timer, clk)
             THEN /\ now' = clk + LOOP_SLEEP_INTERVAL
                  /\ pc' = "poll"
                  /\ UNCHANGED <<exercise, outcome, loc, display, cues>>
             ELSE /\ AfterCall("advance_phase", res, clk + (
                        IF res.exc = "None" /\ res.ret = "True"
                        THEN PauseAfterTransition(exercise.config) + LOOP_SLEEP_INTERVAL
                        ELSE 0))
                  /\ cues' = CuesAfter(res.ex, cues)
                  /\ IF res.exc # "None" THEN Failed(res.exc, loc)
                     ELSE IF res.ret # "True"
                     THEN /\ pc' = "after_loop"
                          /\ UNCHANGED <<loc, display>>
                     ELSE /\ pc' = "poll"
                          /\ loc' = [loc EXCEPT !.last_second = -1,
                                                !.countdown_beeps_played = {}]
                          /\ display' = display
    /\ UNCHANGED <<ph, tm, cli>>

\* core.py:96-104: the step after the loop
Final ==
    /\ pc = "after_loop"
    /\ LET res == Exercise_advance_phase(exercise, now)
           i == Exercise_get_current_phase(res.ex)
           began == Phase_start(PhaseAt(res.ex, i))
       IN  IF Exercise_is_complete(exercise)
           THEN /\ pc' = "stop"
                /\ UNCHANGED <<now, exercise, outcome, loc, display, cues>>
           ELSE /\ cues' = CuesAfter(res.ex, cues)
                /\ IF res.exc # "None"
                   THEN AfterCall("advance_phase", res, now) /\ Failed(res.exc, loc)
                   ELSE IF i = None
                   THEN /\ AfterCall("advance_phase", res, now)
                        /\ pc' = "stop"
                        /\ UNCHANGED <<loc, display>>
                   ELSE IF began.exc # "None"
                   THEN AfterCall("start", Raised(res.ex, began.exc), now)
                        /\ Failed(began.exc, loc)
                   ELSE /\ AfterCall("start",
                                     Returned([res.ex EXCEPT !.phases[i + 1] = began.phase],
                                              "None"),
                                     now + TicksPerSecond)
                        /\ display' = Display_show_countdown(display, 0,
                                                             res.ex.current_phase_index)
                        /\ pc' = "stop"
                        /\ loc' = loc
    /\ UNCHANGED <<ph, tm, cli>>

\* core.py:107
Stop ==
    /\ pc = "stop"
    /\ display' = Display_stop_live_display(display)
    /\ pc' = "input"
    /\ UNCHANGED <<now, exercise, outcome, ph, loc, cues, tm, cli>>

\* core.py:110-115: input() returns (Enter, or EOFError swallowed)
Input ==
    /\ pc = "input"
    /\ loc' = [loc EXCEPT !.result = "True"]
    /\ pc' = "returned"
    /\ UNCHANGED <<now, exercise, outcome, ph, display, cues, tm, cli>>

\* the driver positions inside the try block, before the exit prompt
InTry == {"live", "poll", "render", "expire", "after_loop", "stop"}

\* A KeyboardInterrupt is raised at the driver's position: before the try
\* it leaves run_exercise, at the exit prompt it is swallowed
\* (core.py:110-113), elsewhere the handler of core.py:117-121 runs.
Interrupt ==
    /\ pc \in InTry \cup {"setup", "input"}
    /\ loc.signal = "None"
    /\ IF pc = "setup"
       THEN /\ pc' = "raised"
            /\ loc' = [loc EXCEPT !.result = "KeyboardInterrupt", !.signal = pc]
            /\ display' = display
       ELSE IF pc = "input"
       THEN /\ pc' = "returned"
            /\ loc' = [loc EXCEPT !.result = "True", !.signal = pc]
            /\ display' = display
       ELSE Cancelled(pc)
    /\ UNCHANGED <<now, exercise, outcome, ph, cues, tm, cli>>

Init ==
    /\ pc = "setup"
    /\ \E config \in Configs : Constructed(config)

Step == Setup \/ StartLive \/ Poll \/ Render \/ Expire \/ Final \/ Stop

Next == Step \/ Input \/ Interrupt

Spec == Init /\ [][Next]_vars

\* run_exercise with a display backend that can fail on a frame
NextFaulty == Step \/ Input \/ Interrupt \/ RenderFails

SpecFaulty == Init /\ [][NextFaulty]_vars

----------------------------------------------------------------------------
\* cli.main around run_exercise

\* no Exercise object has been constructed
NoExercise ==
    Exercise([hold_duration |-> 0, step_durations |-> <<>>,
              countdown_beep_threshold |-> 0, preparation_duration |-> 0,
              audio_enabled |-> FALSE, display_mode |-> "None"])

ValueErrors ==
    {"ValueError: Hold duration must be positive",
     "ValueError: Hold duration cannot exceed 300 seconds",
     "ValueError: Step durations cannot be empty",
     "ValueError: All step durations must be positive",
     "ValueError: Step durations cannot exceed 120 seconds",
     "ValueError: Countdown beep threshold must be non-negative",
     "ValueError: Preparation duration must be non-negative",
     "ValueError: Invalid steps format: Empty value at position",
     "ValueError: Invalid steps format",
     "ValueError: Duration must be positive",
     "ValueError: Countdown threshold must be non-negative"}

\* (mutant) the handler for every Exception comes first
Main_handlers_generic_first(exc) ==
    IF exc = "KeyboardInterrupt"
    THEN [err |-> <<"\nExercise interrupted.">>, exit |-> 130]
    ELSE [err |-> <<"Unexpected error: ", exc>>, exit |-> 1]

\* the except clauses of main's try (cli.py:103-112) for an exception raised
\* in its body.  typer.Exit is click's Exit, a RuntimeError, so that one
\* raised in the body is an Exception for the last clause.
Main_handlers(exc) ==
    IF exc \in ValueErrors
    THEN [err |-> <<"Error: ", exc>>, exit |-> 1]
    ELSE IF exc = "KeyboardInterrupt"
    THEN [err |-> <<"\nExercise interrupted.">>, exit |-> 130]
    ELSE [err |-> <<"Unexpected error: ", exc>>, exit |-> 1]

\* the characters of a --steps value
Chars == Digits \cup {",", " "}

\* the --steps values: those that parse to a valid list run an exercise,
\* and the exercises run are those of Configs
CliSteps ==
    {str \in SeqsUpTo(Chars, MaxChars) :
        \/ Strip(str) = <<>>
        \/ ParseParts(Split(str), 1).exc # "None"
        \/ StepsError(ParseParts(Split(str), 1).step_durations, 1) # "None"
        \/ ParseParts(Split(str), 1).step_durations
              \in SeqsUpTo(1..MaxStep, MaxSteps)}

\* the arguments typer hands to main: --hold is declared with min=1 and
\* max=300, --countdown and --preparation with min=0 (cli.py:9-62)
CliArgs ==
    [hold : 1..MaxHold, steps : CliSteps, countdown : 0..MaxThreshold,
     preparation : 0..MaxPrep, tui : BOOLEAN, audio : {"beep", "off", "BEEP"},
     version : BOOLEAN]

\* main leaves with this line on the error stream and this exit status
Exits(line, status) ==
    /\ cli' = [cli EXCEPT !.argv = {}, !.err = line, !.exit = status]
    /\ pc' = "exited"

\* cli.py:65-96 up to the call of run_exercise and its first statement,
\* exercise = Exercise(config) (core.py:21)
Main ==
    /\ pc = "main"
    /\ \E args \in cli.argv :
         LET res == from_cli_args(args)
         IN  IF args.version
             THEN Exits(<<>>, 0) /\ UNCHANGED <<exercise, outcome>>
             ELSE IF args.audio \notin {"beep", "off"}
             THEN Exits(<<"Error: Invalid audio option">>, 1)
                  /\ UNCHANGED <<exercise, outcome>>
             ELSE /\ outcome' = [call |-> "from_cli_args", ret |-> "None",
                                 exc |-> res.exc]
                  /\ IF res.exc # "None"
                     THEN /\ Exits(Main_handlers(res.exc).err, Main_handlers(res.exc).exit)
                          /\ exercise' = exercise
                     ELSE IF \E c \in res.made : ExerciseConfig_validate(c) # "None"
                     THEN /\ Exits(Main_handlers("Exit: 1").err, Main_handlers("Exit: 1").exit)
                          /\ exercise' = exercise
                     ELSE /\ cli' = [cli EXCEPT !.argv = {}, !.config = res.made]
                          /\ \E c \in res.made : exercise' = Exercise(c)
                          /\ pc' = "setup"
    /\ UNCHANGED <<now, ph, loc, display, cues, tm>>

\* cli.py:96-112: run_exercise has returned or raised
Exit ==
    /\ pc \in {"returned", "raised"}
    /\ IF pc = "raised"
       THEN Exits(Main_handlers(loc.result).err, Main_handlers(loc.result).exit)
       ELSE IF loc.result # "True"
       THEN Exits(Main_handlers("Exit: 130").err, Main_handlers("Exit: 130").exit)
       ELSE Exits(<<>>, 0)
    /\ UNCHANGED <<now, exercise, outcome, ph, loc, display, cues, tm>>

InitCli ==
    /\ pc = "main"
    /\ now = 0
    /\ exercise = NoExercise
    /\ outcome = NoCall
    /\ ph = [phase |-> Phase(BREATHING, COMPLETE_DURATION, "Complete", "blue"),
             trace |-> <<>>]
    /\ loc = IdleLoc
    /\ display = IdleDisplay
    /\ cues = <<>>
    /\ tm = IdleTm
    /\ cli \in {[IdleCli EXCEPT !.argv = {args}] : args \in CliArgs}

NextCli == Main \/ Step \/ Input \/ Interrupt \/ Exit

SpecCli == InitCli /\ [][NextCli]_vars

\* A run in which no KeyboardInterrupt is raised.  The driver is one thread
\* whose sleeps return and whose clock reads see time that has passed, so
\* a step that can be taken is taken; the user's Enter is not assumed.
NextUninterrupted == Step \/ Input

SpecUninterrupted == Init /\ [][NextUninterrupted]_vars /\ WF_vars(Step)

----------------------------------------------------------------------------
\* Claims about Exercise and Phase

Running(ex) == ex._started /\ ~ex._completed

\* the current timer has run for its whole duration at clock reading clk
TimeIsUp(ex, clk) == clk - ex.timer._start_time >= ex.timer.duration

AllCompleted(ex) == \A k \in 1..Len(ex.phases) : ex.phases[k]._state = COMPLETED

\* C1: while the exercise is started and not completed, the phase at
\* current_phase_index is the only one in IN_PROGRESS or COUNTDOWN, every
\* phase at a lower index is COMPLETED and every phase at a higher index is
\* NOT_STARTED.
C1_OneActivePhase ==
    Running(exercise) =>
        /\ exercise.current_phase_index \in 0..(Len(exercise.phases) - 1)
        /\ \A k \in 0..(Len(exercise.phases) - 1) :
              /\ k < exercise.current_phase_index
                    => PhaseAt(exercise, k)._state = COMPLETED
              /\ k = exercise.current_phase_index
                    => PhaseAt(exercise, k)._state \in {IN_PROGRESS, COUNTDOWN}
              /\ k > exercise.current_phase_index
                    => PhaseAt(exercise, k)._state = NOT_STARTED

C1_Witness ==
    /\ Running(exercise)
    /\ exercise.current_phase_index = 1
    /\ Len(exercise.phases) >= 3
    /\ PhaseAt(exercise, 1)._state = COUNTDOWN
    /\ outcome.call = "enter_countdown"

\* C2: advance_phase() on a started, not completed exercise whose timer has
\* not expired raises and changes nothing of the exercise.
C2_EarlyAdvanceFails ==
    [][(ApiAdvance /\ Running(exercise) /\ ~TimeIsUp(exercise, now))
          => /\ outcome'.exc = "RuntimeError: Current phase not complete"
             /\ exercise' = exercise]_vars

C2_Witness ==
    /\ outcome.call = "advance_phase"
    /\ outcome.exc = "RuntimeError: Current phase not complete"
    /\ Running(exercise)
    /\ exercise.current_phase_index = 1
    /\ now = exercise.timer.duration - 1

\* C3: advance_phase() after the timer expired, with a next phase, completes
\* the current phase, moves the index on by one, puts the new phase in
\* IN_PROGRESS, installs a new running Timer and returns true.
C3_AdvanceAfterExpiry ==
    [][(/\ ApiAdvance
        /\ Running(exercise)
        /\ TimeIsUp(exercise, now)
        /\ exercise.current_phase_index < Len(exercise.phases) - 1)
          => LET i == exercise.current_phase_index
             IN  /\ outcome'.ret = "True"
                 /\ outcome'.exc = "None"
                 /\ exercise'.current_phase_index = i + 1
                 /\ PhaseAt(exercise', i)._state = COMPLETED
                 /\ PhaseAt(exercise', i + 1)._state = IN_PROGRESS
                 /\ exercise'.timer.id # exercise.timer.id
                 /\ exercise'.timer._is_running
                 /\ exercise'.timer._start_time = now'
                 /\ exercise'.timer.duration = Secs(PhaseAt(exercise, i + 1).duration)
                 /\ Running(exercise')]_vars

C3_Witness ==
    /\ outcome.call = "advance_phase"
    /\ outcome.ret = "True"
    /\ exercise.current_phase_index = 2
    /\ PhaseAt(exercise, 1)._state = COMPLETED
    /\ PhaseAt(exercise, 2)._state = IN_PROGRESS
    /\ now = 0

\* C4: the completed flag becomes true only by advance_phase() called on the
\* last phase after its timer expired; that call returns false, sets
\* current_phase_index to None and leaves every phase COMPLETED.
C4_SoleTerminalTransition ==
    [][(~exercise._completed /\ exercise'._completed)
          => /\ ApiAdvance
             /\ exercise._started
             /\ exercise.current_phase_index = Len(exercise.phases) - 1
             /\ TimeIsUp(exercise, now)
             /\ outcome'.ret = "False"
             /\ outcome'.exc = "None"
             /\ exercise'.current_phase_index = None
             /\ AllCompleted(exercise')]_vars

C4_Witness ==
    /\ exercise._completed
    /\ outcome.call = "advance_phase"
    /\ outcome.ret = "False"
    /\ Len(exercise.phases) = 4
    /\ AllCompleted(exercise)

\* C5: on a Phase the calls that succeed follow not_started -start->
\* in_progress -enter_countdown-> countdown -complete-> completed or
\* not_started -start-> in_progress -complete-> completed; every other call
\* raises and leaves the state as it was.
LegalTraces ==
    {<<>>, <<"start">>, <<"start", "enter_countdown">>,
     <<"start", "enter_countdown", "complete">>, <<"start", "complete">>}

StateAfter(trace) ==
    IF trace = <<>> THEN NOT_STARTED
    ELSE IF trace[Len(trace)] = "start" THEN IN_PROGRESS
    ELSE IF trace[Len(trace)] = "enter_countdown" THEN COUNTDOWN
    ELSE COMPLETED

C5_PhaseLifecycle ==
    /\ [](ph.trace \in LegalTraces /\ ph.phase._state = StateAfter(ph.trace))
    /\ [][(NextPhase /\ outcome'.exc # "None")
            => /\ ph' = ph
               /\ Append(ph.trace, outcome'.call) \notin LegalTraces]_vars
    /\ [][(NextPhase /\ outcome'.exc = "None")
            => ph'.trace = Append(ph.trace, outcome'.call)]_vars

C5_Witness ==
    /\ ph.trace = <<"start", "complete">>
    /\ ph.phase._state = COMPLETED
    /\ outcome.call = "start"
    /\ outcome.exc = "RuntimeError: Cannot start phase"

----------------------------------------------------------------------------
\* Claims about the driver loop

CurrentPhase == PhaseAt(exercise, exercise.current_phase_index)

CueIndices(kind) == {k \in 1..Len(cues) : cues[k].kind = kind}

\* C6: within one phase at most one countdown cue is emitted for each value
\* of the whole seconds remaining, and a countdown cue is emitted only with
\* audio enabled and for a value in 1..countdown_beep_threshold.
C6_CountdownCueOncePerValue ==
    /\ \A j, k \in CueIndices("countdown") : cues[j].value = cues[k].value => j = k
    /\ \A k \in CueIndices("countdown") :
          /\ exercise.config.audio_enabled
          /\ 1 <= cues[k].value
          /\ cues[k].value <= exercise.config.countdown_beep_threshold

\* two ticks have read 1 whole second remaining, the second without a cue
C6_Witness ==
    /\ pc = "expire"
    /\ cues = << [kind |-> "countdown", value |-> 2], [kind |-> "countdown", value |-> 1] >>
    /\ loc.remaining = 1
    /\ loc.last_second = 1
    /\ Timer_remaining_time(exercise.timer, now) = Secs(1)

\* C7: within one phase at most one transition cue is emitted, only with
\* 0 whole seconds remaining and audio enabled, and never while the
\* "Complete" phase is the current one.
C7_TransitionCueOnce ==
    /\ Cardinality(CueIndices("transition")) <= 1
    /\ \A k \in CueIndices("transition") :
          /\ cues[k].value = 0
          /\ exercise.config.audio_enabled
          /\ Running(exercise)
          /\ CurrentPhase.instruction # "Complete"

\* the cue was emitted, and a later tick read 0 again
C7_Witness ==
    /\ pc = "expire"
    /\ CueIndices("transition") # {}
    /\ loc.remaining = 0
    /\ 0 \in loc.countdown_beeps_played
    /\ exercise.current_phase_index = 1
    /\ cues[Len(cues)].kind = "transition"
    /\ Len(cues) = 2

\* C8: while the "Complete" phase is the current phase no cue is emitted.
C8_CompletePhaseSilent ==
    (Running(exercise) /\ CurrentPhase.instruction = "Complete") => cues = <<>>

\* the Complete phase was rendered with audio on and a threshold of 1 or more
C8_Witness ==
    /\ Running(exercise)
    /\ CurrentPhase.instruction = "Complete"
    /\ exercise.config.audio_enabled
    /\ exercise.config.countdown_beep_threshold >= 1
    /\ pc = "expire"
    /\ loc.last_second = 0
    /\ display.frame = <<0, exercise.current_phase_index>>
    /\ Timer_remaining_time(exercise.timer, now) = Secs(1) - LOOP_SLEEP_INTERVAL

\* C9: without a cancellation signal the run leaves the loop with every
\* phase COMPLETED, the phases having completed in index order, and
\* what it returns is success.
LoopLeft == pc \in {"after_loop", "stop", "input", "returned"}

C9_RunCompletes ==
    /\ <>(LoopLeft /\ exercise._completed /\ AllCompleted(exercise))
    /\ [](LoopLeft => exercise._completed /\ AllCompleted(exercise))
    /\ [](pc = "returned" => loc.result = "True")
    /\ [](pc # "raised")
    /\ [][\A k \in 1..Len(exercise.phases) :
            (exercise.phases[k]._state # COMPLETED /\ exercise'.phases[k]._state = COMPLETED)
               => \A j \in 1..(k - 1) : exercise.phases[j]._state = COMPLETED]_vars

C9_Witness ==
    /\ pc = "returned"
    /\ loc.result = "True"
    /\ loc.signal = "None"
    /\ Len(exercise.phases) = 4
    /\ AllCompleted(exercise)

\* C10 as stated: a KeyboardInterrupt raised at any point of run_exercise
\* makes it stop the display, show the notice and return False without
\* raising, and it returns True only when none was raised.
C10_AnySignalFails ==
    /\ pc # "raised"
    /\ (pc = "returned" /\ loc.signal # "None")
          => /\ loc.result = "False"
             /\ display.notice = INTERRUPTION_MESSAGE
             /\ ~display._display_initialized
    /\ (pc = "returned" /\ loc.result = "True") => loc.signal = "None"

\* C10, amended: a KeyboardInterrupt raised inside the try block before the
\* exit prompt makes run_exercise stop the display, show the notice and
\* return False; one raised at the exit prompt is swallowed and the run
\* returns True; one raised before the try block leaves run_exercise.
C10_SignalByPosition ==
    /\ loc.signal \in InTry
          => /\ pc = "returned"
             /\ loc.result = "False"
             /\ display.notice = INTERRUPTION_MESSAGE
             /\ ~display._display_initialized
    /\ loc.signal = "input" => (pc = "returned" /\ loc.result = "True")
    /\ loc.signal = "setup" => pc = "raised"
    /\ pc = "raised" => loc.signal = "setup"
    /\ (pc = "returned" /\ loc.result = "True") => loc.signal \in {"None", "input"}
    /\ (pc = "returned" /\ loc.result = "False") => loc.signal \in InTry

C10_Witness ==
    /\ loc.signal = "expire"
    /\ pc = "returned"
    /\ loc.result = "False"
    /\ display.mode = TUI
    /\ display.notice = INTERRUPTION_MESSAGE
    /\ exercise.current_phase_index = 1

----------------------------------------------------------------------------
\* Claims about cli.main, ExerciseConfig and the generated phases

\* C11: when the user interrupts the exercise the process exits with status
\* 130, both when run_exercise catches the interrupt and returns failure and
\* when the interrupt propagates to main(); a run that finishes without
\* interruption exits 0.
C11_InterruptExits130 ==
    pc = "exited" =>
        /\ loc.signal \in InTry \cup {"setup"} => cli.exit = 130
        /\ (loc.signal = "None" /\ loc.result = "True") => cli.exit = 0

\* C12: the phases generated for a configuration with N steps are, in
\* order, a Breathing phase of preparation_duration iff that is positive,
\* then for each step d a Breathing phase of d and a Hold phase of
\* hold_duration, then one Breathing phase of 1 labeled "Complete":
\* 2N + 1 phases, 2N + 2 with preparation.
C12_GeneratedPhases ==
    exercise._started =>
        LET c == exercise.config
            N == Len(c.step_durations)
            p == IF c.preparation_duration > 0 THEN 1 ELSE 0
            ps == exercise.phases
        IN  /\ Len(ps) = 2 * N + 1 + p
            /\ p = 1 => /\ ps[1].type = BREATHING
                        /\ ps[1].duration = c.preparation_duration
            /\ \A k \in 1..N :
                  /\ ps[p + 2 * k - 1].type = BREATHING
                  /\ ps[p + 2 * k - 1].duration = c.step_durations[k]
                  /\ ps[p + 2 * k].type = HOLD
                  /\ ps[p + 2 * k].duration = c.hold_duration
            /\ ps[Len(ps)].type = BREATHING
            /\ ps[Len(ps)].duration = 1
            /\ {k \in 1..Len(ps) : ps[k].instruction = "Complete"} = {Len(ps)}

\* hold=60, steps=[30,20,10], prep=0 gives 7 phases
C12_Witness ==
    /\ exercise._started
    /\ exercise.config = DefaultConfig
    /\ Len(exercise.phases) = 7
    /\ exercise.phases[5].duration = 10
    /\ exercise.phases[6].duration = 60

\* C13: the Breathing phase of a step d is labeled "Breathe {d}s" with d
\* substituted, every Hold phase "Hold", the preparation phase "Prepare".
C13_Labels ==
    exercise._started =>
        LET c == exercise.config
            p == IF c.preparation_duration > 0 THEN 1 ELSE 0
            ps == exercise.phases
        IN  /\ p = 1 => ps[1].instruction = "Prepare"
            /\ \A k \in 1..Len(c.step_durations) :
                  /\ ps[p + 2 * k - 1].instruction
                        = "Breathe " \o ToString(c.step_durations[k]) \o "s"
                  /\ ps[p + 2 * k].instruction = "Hold"

\* C14: ExerciseConfig(...) succeeds iff 1 <= hold_duration <= 300,
\* step_durations is non-empty with every element in 1..120,
\* countdown_beep_threshold >= 0 and preparation_duration >= 0; otherwise it
\* raises and no configuration is made.
WithinLimits(c) ==
    /\ 1 <= c.hold_duration /\ c.hold_duration <= 300
    /\ c.step_durations # <<>>
    /\ \A k \in 1..Len(c.step_durations) :
          1 <= c.step_durations[k] /\ c.step_durations[k] <= 120
    /\ c.countdown_beep_threshold >= 0
    /\ c.preparation_duration >= 0

C14_ConstructIffWithinLimits ==
    pc = "configured" =>
        \A c \in cli.argv :
            /\ WithinLimits(c) => (cli.config = {c} /\ outcome.exc = "None")
            /\ ~WithinLimits(c) => (cli.config = {} /\ outcome.exc \in ValueErrors)

\* Configuration{hold=301}, all else within limits, fails on the 300 s limit
C14_Witness ==
    /\ pc = "configured"
    /\ \E c \in cli.argv :
          /\ c.hold_duration = 301
          /\ c.step_durations = <<1, 120>>
          /\ c.countdown_beep_threshold = 0
    /\ cli.config = {}
    /\ outcome.exc = "ValueError: Hold duration cannot exceed 300 seconds"

\* C15: when from_cli_args raises for the arguments of the command line,
\* main exits with status 1 with no Exercise constructed and no phase
\* started; an Exercise is constructed only from a validated configuration.
C15_ValidationBeforeRun ==
    /\ [](outcome.call = "from_cli_args" /\ outcome.exc # "None"
            => /\ pc = "exited"
               /\ cli.exit = 1
               /\ cli.err = <<"Error: ", outcome.exc>>
               /\ cli.config = {}
               /\ exercise = NoExercise)
    /\ [][(exercise = NoExercise /\ exercise' # NoExercise)
            => /\ outcome'.call = "from_cli_args" /\ outcome'.exc = "None"
               /\ cli'.config = {exercise'.config}
               /\ WithinLimits(exercise'.config)
               /\ exercise'.phases = <<>>
               /\ ~exercise'._started]_vars

\* --steps 121 (or 122): the step is beyond the 120 s limit
C15_Witness ==
    /\ pc = "exited"
    /\ outcome.call = "from_cli_args"
    /\ outcome.exc = "ValueError: Step durations cannot exceed 120 seconds"
    /\ cli.exit = 1
    /\ exercise = NoExercise

----------------------------------------------------------------------------
\* Claims about Timer

\* C16 as stated: after any sequence of Timer operations and clock advances,
\* once is_expired() is true it is true at every later call.
C16_NoUnexpiry ==
    [][Timer_is_expired(tm.timer, now) => Timer_is_expired(tm'.timer, now')]_vars

\* C16, amended: is_expired() is false while the timer is not running; once
\* it is true it stays true over every start() and clock advance; reset()
\* stops the timer, after which is_expired() is false.
C16_NoUnexpiryUntilReset ==
    /\ [](~tm.timer._is_running => ~Timer_is_expired(tm.timer, now))
    /\ [][(Timer_is_expired(tm.timer, now) /\ ~TmReset)
            => Timer_is_expired(tm'.timer, now')]_vars
    /\ [][TmReset => ~Timer_is_expired(tm'.timer, now')]_vars

\* expired for some time, and a start() since
C16_Witness ==
    /\ Timer_is_expired(tm.timer, now)
    /\ now - tm.timer._start_time > tm.timer.duration
    /\ outcome.call = "start"
    /\ outcome.exc = "RuntimeError: Timer is already running"

\* the time remaining, from the fields
Remaining(t, clk) ==
    IF t._is_running THEN Max(0, t.duration - (clk - t._start_time)) ELSE t.duration

\* C17: in_countdown() is true exactly when the timer is running,
\* countdown_threshold > 0 and 0 < remaining <= countdown_threshold; false
\* at remaining = 0, false for a threshold of 0, and never true at a clock
\* reading at which is_expired() is true.
C17_InCountdownWindow ==
    LET t == tm.timer
    IN  /\ Timer_in_countdown(t, now)
             <=> (/\ t._is_running
                  /\ t.countdown_threshold > 0
                  /\ 0 < Remaining(t, now)
                  /\ Remaining(t, now) <= t.countdown_threshold)
        /\ Remaining(t, now) = 0 => ~Timer_in_countdown(t, now)
        /\ t.countdown_threshold = 0 => ~Timer_in_countdown(t, now)
        /\ ~(Timer_in_countdown(t, now) /\ Timer_is_expired(t, now))

\* one tick before expiry, inside the window
C17_Witness ==
    /\ tm.timer._is_running
    /\ Timer_in_countdown(tm.timer, now)
    /\ now - tm.timer._start_time = tm.timer.duration - 1
    /\ tm.timer.countdown_threshold < tm.timer.duration

\* C18: remaining_time() lies in [0, duration], is duration while the timer
\* is not running, does not grow as the clock advances on a running timer,
\* and is 0 exactly when elapsed >= duration, exactly when is_expired().
C18_RemainingClamped ==
    /\ [](LET t == tm.timer
              r == Timer_remaining_time(t, now)
          IN  /\ 0 <= r /\ r <= t.duration
              /\ ~t._is_running => r = t.duration
              /\ r = 0 <=> Timer_elapsed(t, now) >= t.duration
              /\ r = 0 <=> Timer_is_expired(t, now))
    /\ [][(TmClock /\ tm.timer._is_running)
            => Timer_remaining_time(tm'.timer, now')
                 <= Timer_remaining_time(tm.timer, now)]_vars

\* the clock has gone past the duration
C18_Witness ==
    /\ tm.timer._is_running
    /\ now - tm.timer._start_time > tm.timer.duration
    /\ Timer_remaining_time(tm.timer, now) = 0
    /\ outcome = NoCall

\* C19 as stated: start() on a running Timer raises and changes nothing,
\* and no Timer that was started is started again.
C19_SingleUse ==
    [][(TmStart /\ tm.was_started)
          => /\ outcome'.exc = "RuntimeError: Timer is already running"
             /\ tm'.timer = tm.timer]_vars

\* C19, amended: start() on a running Timer raises and changes nothing;
\* only reset() stops a running Timer, and start() on a Timer that is not
\* running, reset ones included, starts it at the clock reading.
C19_RestartOnlyAfterReset ==
    /\ [][(TmStart /\ tm.timer._is_running)
            => /\ outcome'.exc = "RuntimeError: Timer is already running"
               /\ tm'.timer = tm.timer]_vars
    /\ [][(tm.timer._is_running /\ ~tm'.timer._is_running) => TmReset]_vars
    /\ [][(TmStart /\ ~tm.timer._is_running)
            => /\ outcome'.exc = "None"
               /\ tm'.timer._is_running
               /\ tm'.timer._start_time = now]_vars
    /\ [](tm.timer._is_running => tm.was_started)

\* a second start() some time after the first
C19_Witness ==
    /\ tm.was_started
    /\ tm.timer._is_running
    /\ outcome.call = "start"
    /\ outcome.exc = "RuntimeError: Timer is already running"
    /\ now > tm.timer._start_time

----------------------------------------------------------------------------
\* Claims about Exercise.start

\* C20: start() raises on an exercise that is started and not completed and
\* on one that is completed, changing nothing of it; otherwise it sets
\* current_phase_index to 0, puts phases[0] in IN_PROGRESS and installs a
\* running Timer of that phase's duration and the configured threshold.
C20_StartContract ==
    /\ [][(ApiStart /\ exercise._started /\ ~exercise._completed)
            => /\ outcome'.exc = "RuntimeError: Exercise already started"
               /\ exercise' = exercise]_vars
    /\ [][(ApiStart /\ exercise._completed)
            => /\ outcome'.exc = "RuntimeError: Exercise already completed"
               /\ exercise' = exercise]_vars
    /\ [][(ApiStart /\ ~exercise._started /\ ~exercise._completed)
            => /\ outcome'.exc = "None"
               /\ exercise'._started /\ ~exercise'._completed
               /\ exercise'.current_phase_index = 0
               /\ exercise'.phases # <<>>
               /\ PhaseAt(exercise', 0)._state = IN_PROGRESS
               /\ \A k \in 2..Len(exercise'.phases) :
                     exercise'.phases[k]._state = NOT_STARTED
               /\ exercise'.timer._is_running
               /\ exercise'.timer._start_time = now'
               /\ exercise'.timer.id # exercise.timer.id
               /\ exercise'.timer.duration = Secs(PhaseAt(exercise', 0).duration)
               /\ exercise'.timer.countdown_threshold
                     = Secs(exercise.config.countdown_beep_threshold)]_vars

\* start() on a completed exercise
C20_Witness ==
    /\ outcome.call = "start"
    /\ outcome.exc = "RuntimeError: Exercise already completed"
    /\ exercise._completed
    /\ Len(exercise.phases) = 4
    /\ AllCompleted(exercise)
    /\ exercise.timer._is_running

----------------------------------------------------------------------------
\* Claims about Exercise.advance_phase and the installed Timer

\* C21: advance_phase() raises "not started" on an exercise that is not
\* started, and on a completed exercise returns false and changes nothing,
\* at every call.
C21_AdvanceOutsideRun ==
    /\ [][(ApiAdvance /\ ~exercise._started)
            => /\ outcome'.exc = "RuntimeError: Exercise not started"
               /\ outcome'.ret = "None"
               /\ exercise' = exercise]_vars
    /\ [][(ApiAdvance /\ exercise._completed)
            => /\ outcome'.exc = "None"
               /\ outcome'.ret = "False"
               /\ exercise' = exercise]_vars

\* advance_phase() on an exercise that ran to completion and was reset
C21_Witness ==
    /\ outcome.call = "advance_phase"
    /\ outcome.exc = "RuntimeError: Exercise not started"
    /\ ~exercise._started
    /\ exercise.phases = <<>>
    /\ now > 0

----------------------------------------------------------------------------
\* Claims about the driver and its sinks

\* C22: a failure of the display backend while a frame is rendered never
\* ends the loop, never changes the phase advances and never changes the
\* result run_exercise reports.
C22_BackendFailureHarmless ==
    [][RenderFails => /\ pc' = "expire"
                      /\ loc'.result = loc.result
                      /\ exercise' = exercise]_vars

C24_SilentWhenAudioOff ==
    ~exercise.config.audio_enabled
        => /\ cues = <<>>
           /\ loc.countdown_beeps_played = {}

\* audio off, a hold phase with a countdown window rendered down to 0
C24_Witness ==
    /\ ~exercise.config.audio_enabled
    /\ exercise.config.countdown_beep_threshold >= 1
    /\ pc = "expire"
    /\ exercise.current_phase_index # None
    /\ CurrentPhase.type = HOLD
    /\ CurrentPhase._state = COUNTDOWN
    /\ loc.last_second = 0
    /\ display.frame = <<0, exercise.current_phase_index>>

\* C25: no call the driver makes to Phase, Timer or Exercise fails with a
\* state-contract error, whatever the configuration and the time between
\* two clock reads.
C25_NoContractError ==
    /\ outcome.exc = "None"
    /\ pc = "raised" => loc.signal = "setup"
    /\ (pc = "returned" /\ loc.result = "False") => loc.signal \in InTry
    /\ display.notice \in {"None", INTERRUPTION_MESSAGE}

\* the loop ran a four-phase exercise with a countdown window to its end
C25_Witness ==
    /\ pc = "after_loop"
    /\ outcome = [call |-> "advance_phase", ret |-> "False", exc |-> "None"]
    /\ Len(exercise.phases) >= 4
    /\ exercise.config.countdown_beep_threshold >= 1
    /\ AllCompleted(exercise)

\* the terminal Complete phase has left NOT_STARTED
CompleteEntered ==
    /\ exercise.phases # <<>>
    /\ exercise.phases[Len(exercise.phases)]._state # NOT_STARTED

\* C26: the Complete phase is entered by the final step after the loop,
\* which advances into it, starts it and renders it once at remaining = 0.
C26_FinalStepEntersComplete ==
    [][(~CompleteEntered /\ CompleteEntered')
        => /\ pc = "after_loop"
           /\ pc' = "stop"
           /\ display'.frame = <<0, Len(exercise.phases) - 1>>]_vars

\* the states of the phases, as far as both lists go
PhaseStates(ex) == [k \in 1..Len(ex.phases) |-> ex.phases[k]._state]

\* C27: a phase enters COUNTDOWN only in the loop's enter_countdown() call,
\* from IN_PROGRESS, as the current phase, on a tick where the timer is in
\* its countdown window, and at most once; with a threshold of 0 no phase is
\* ever in COUNTDOWN; a phase in COUNTDOWN has remaining <= threshold.
C27_CountdownEntry ==
    /\ [][\A k \in 1..Len(exercise.phases) :
            (/\ k <= Len(exercise'.phases)
             /\ PhaseStates(exercise)[k] # COUNTDOWN
             /\ PhaseStates(exercise')[k] = COUNTDOWN)
                => /\ pc = "poll"
                   /\ outcome'.call = "enter_countdown"
                   /\ k = exercise.current_phase_index + 1
                   /\ PhaseStates(exercise)[k] = IN_PROGRESS
                   /\ Timer_in_countdown(exercise.timer, now')]_vars
    /\ [][\A k \in 1..Len(exercise.phases) :
            (k <= Len(exercise'.phases) /\ PhaseStates(exercise)[k] = COUNTDOWN)
                => PhaseStates(exercise')[k] \in {COUNTDOWN, COMPLETED}]_vars
    /\ [](exercise.config.countdown_beep_threshold = 0
            => \A k \in 1..Len(exercise.phases) : PhaseStates(exercise)[k] # COUNTDOWN)
    /\ [](\A k \in 1..Len(exercise.phases) :
            PhaseStates(exercise)[k] = COUNTDOWN
                => /\ k = exercise.current_phase_index + 1
                   /\ Remaining(exercise.timer, now)
                          <= Secs(exercise.config.countdown_beep_threshold))

\* the tick on which a phase longer than the threshold enters COUNTDOWN at
\* the first instant of the window
C27_Witness ==
    /\ pc = "render"
    /\ outcome.call = "enter_countdown"
    /\ exercise.current_phase_index # None
    /\ CurrentPhase._state = COUNTDOWN
    /\ CurrentPhase.duration > exercise.config.countdown_beep_threshold
    /\ Remaining(exercise.timer, now) = Secs(exercise.config.countdown_beep_threshold)

\* the loop is between the top of an iteration and its expiry check
InLoop == pc \in {"poll", "render", "expire"}

\* C28: a tick renders a frame exactly when the whole seconds remaining
\* differ from the value last rendered for the current phase, a phase just
\* started or advanced to having no last value; every phase, Complete
\* included, is rendered before the cursor leaves it; the values rendered
\* within one phase strictly decrease.
C28_RenderOnChange ==
    /\ [][(pc = "render" /\ pc' = "expire")
            => LET r == IntOf(Timer_remaining_time(exercise.timer, now'))
               IN  IF r # loc.last_second
                   THEN /\ display'.frame = <<r, exercise.current_phase_index>>
                        /\ display'.frame # display.frame
                   ELSE display'.frame = display.frame]_vars
    /\ [](InLoop /\ Running(exercise)
            => IF loc.last_second = -1
               THEN \/ display.frame = <<>>
                    \/ display.frame[2] # exercise.current_phase_index
               ELSE display.frame = <<loc.last_second, exercise.current_phase_index>>)
    /\ [][(/\ exercise.current_phase_index # None
            /\ exercise'.current_phase_index # exercise.current_phase_index)
            => /\ loc.last_second # -1
               /\ display.frame = <<loc.last_second, exercise.current_phase_index>>
               /\ pc' = "poll" => loc'.last_second = -1]_vars
    /\ [][(/\ display'.frame # display.frame
            /\ display.frame # <<>>
            /\ display'.frame[2] = display.frame[2])
            => display'.frame[1] < display.frame[1]]_vars

\* the Complete phase on screen at 0, about to be found expired
C28_Witness ==
    /\ pc = "expire"
    /\ exercise.current_phase_index = Len(exercise.phases) - 1
    /\ CurrentPhase.instruction = "Complete"
    /\ loc.last_second = 0
    /\ display.frame = <<0, exercise.current_phase_index>>

\* the durations of the phases added up, in ticks
RECURSIVE PhaseTicks(_)
PhaseTicks(phases) ==
    IF phases = <<>> THEN 0
    ELSE Secs(Head(phases).duration) + PhaseTicks(Tail(phases))

\* C29: the cursor leaves a phase only at a clock reading at which that
\* phase's timer has run for its whole duration, and when the exercise
\* becomes complete the time since start() is at least the sum of the
\* durations of all generated phases.
C29_NotAheadOfTime ==
    /\ [][(/\ exercise.current_phase_index # None
            /\ exercise'.current_phase_index # exercise.current_phase_index)
            => TimeIsUp(exercise, now')]_vars
    /\ [][(~exercise._completed /\ exercise'._completed)
            => now' >= PhaseTicks(exercise'.phases)]_vars

\* a four-phase exercise completed at the earliest reading there is
C29_Witness ==
    /\ pc = "clock"
    /\ exercise._completed
    /\ Len(exercise.phases) >= 4
    /\ now = PhaseTicks(exercise.phases)

\* C30: while the exercise is started and not completed its one Timer is
\* running, with the duration of the phase at current_phase_index and the
\* configured threshold; a successful advance installs another Timer object
\* with elapsed time 0, and no other step touches the installed Timer.
C30_OneTimerPerPhase ==
    /\ [](Running(exercise)
            => /\ exercise.timer # NoTimer
               /\ exercise.timer._is_running
               /\ exercise.timer._start_time # None
               /\ exercise.timer.duration = Secs(CurrentPhase.duration)
               /\ exercise.timer.countdown_threshold
                     = Secs(exercise.config.countdown_beep_threshold))
    /\ [][(ApiAdvance /\ outcome'.exc = "None" /\ outcome'.ret = "True")
            => /\ exercise'.timer.id # exercise.timer.id
               /\ Timer_elapsed(exercise'.timer, now') = 0
               /\ Timer_remaining_time(exercise'.timer, now')
                     = Secs(PhaseAt(exercise', exercise'.current_phase_index).duration)]_vars
    /\ [][(Running(exercise) /\ Running(exercise') /\ exercise'.timer # exercise.timer)
            => /\ ApiAdvance
               /\ exercise'.current_phase_index = exercise.current_phase_index + 1
               /\ exercise'.timer.id # exercise.timer.id]_vars

\* after an advance from a phase to one of another duration
C30_Witness ==
    /\ pc = "client"
    /\ outcome = [call |-> "advance_phase", ret |-> "True", exc |-> "None"]
    /\ exercise.current_phase_index >= 1
    /\ CurrentPhase.duration # PhaseAt(exercise, exercise.current_phase_index - 1).duration
    /\ exercise.timer.duration = Secs(CurrentPhase.duration)
    /\ Timer_elapsed(exercise.timer, now) = 0

----------------------------------------------------------------------------
\* Claims about the order of cues and about Exercise.reset

\* C31: with audio enabled, whenever the loop moves the cursor off a phase
\* other than Complete, a transition cue has been emitted for that phase.
C31_NoAdvanceWithoutCue ==
    [][(/\ InLoop
        /\ exercise.config.audio_enabled
        /\ exercise.current_phase_index # None
        /\ exercise'.current_phase_index # exercise.current_phase_index
        /\ CurrentPhase.instruction # "Complete")
        => CueIndices("transition") # {}]_vars

\* C32: the cues of one phase come in strictly decreasing order of their
\* value: countdown cues with values in 1..countdown_beep_threshold, and the
\* transition cue, with value 0, after which no cue follows in the phase.
C32_CuesDecrease ==
    /\ \A j, k \in 1..Len(cues) : j < k => cues[j].value > cues[k].value
    /\ \A k \in CueIndices("countdown") :
          cues[k].value \in 1..exercise.config.countdown_beep_threshold
    /\ \A k \in CueIndices("transition") : cues[k].value = 0 /\ k = Len(cues)

\* a phase that gave the cues 2, 1 and then the transition cue
C32_Witness ==
    /\ Len(cues) = 3
    /\ cues[1] = [kind |-> "countdown", value |-> 2]
    /\ cues[2] = [kind |-> "countdown", value |-> 1]
    /\ cues[3] = [kind |-> "transition", value |-> 0]
    /\ pc = "expire"

\* C33: reset() in any state leaves the exercise as Exercise(config) makes
\* it, with its configuration kept; the start() that follows succeeds and
\* gives the phases _generate_phases makes for that configuration, phases[0]
\* started and every other one NOT_STARTED, with a running Timer.
C33_ResetRestarts ==
    /\ [][ApiReset => /\ exercise' = Exercise(exercise.config)
                      /\ outcome'.exc = "None"]_vars
    /\ [][exercise'.config = exercise.config]_vars
    /\ [][(ApiStart /\ outcome.call = "reset")
            => LET fresh == _generate_phases(exercise.config)
               IN  /\ outcome'.exc = "None"
                   /\ exercise'._started /\ ~exercise'._completed
                   /\ exercise'.current_phase_index = 0
                   /\ Len(exercise'.phases) = Len(fresh)
                   /\ exercise'.phases[1] = [fresh[1] EXCEPT !._state = IN_PROGRESS]
                   /\ \A k \in 2..Len(fresh) :
                         /\ exercise'.phases[k] = fresh[k]
                         /\ fresh[k]._state = NOT_STARTED
                   /\ exercise'.timer._is_running
                   /\ Timer_elapsed(exercise'.timer, now') = 0]_vars

\* reset() has just been called on an exercise that had been started: the
\* clock is further on than it gets with no Timer installed
C33_Witness ==
    /\ pc = "client"
    /\ outcome = [call |-> "reset", ret |-> "None", exc |-> "None"]
    /\ exercise = Exercise(exercise.config)
    /\ now >= 2 * MaxStall

====
